---- MODULE Spec2Model ----
(***************************************************************************)
(* Hooks of sergio-bershadsky/ai.  Secondbrain: the freshness-check hook   *)
(* (UserPromptSubmit) and the session-context hook (SessionStart), under   *)
(* Spec, and find_project_root under SpecRoot.  Git: the pre-stop-commit   *)
(* hook (Stop) under SpecStop and the auto-stage hook (PostToolUse) under  *)
(* SpecStage.                                                              *)
(*                                                                         *)
(* State: the clock, the project's configuration file, the entity record   *)
(* containers on disk, and what the last hook run produced; the state of a *)
(* call of find_project_root (walk), of a Stop hook run (stop) and of an   *)
(* auto-stage run (stage).  Each hook run is one action translated from    *)
(* main() and the functions it calls.                                      *)
(*                                                                         *)
(* Encoding of loosely-typed YAML values: every scalar is a TLA+ string.   *)
(* NoKey stands for "the key is missing" (dict.get returns None), IntFive  *)
(* for a scalar that is not a string (the integer 5), DateObj for the      *)
(* datetime.date that yaml.safe_load makes of an unquoted 2024-01-01.      *)
(* Every record is a TLA+ record over the same field names; a sequence     *)
(* element that is not a mapping has map = FALSE.                          *)
(*                                                                         *)
(* Time is counted in ticks (TicksPerHour to the hour) since               *)
(* 2024-01-01T00:00; a calendar date is the number of days since           *)
(* 2024-01-01.                                                             *)
(***************************************************************************)
EXTENDS Integers, Sequences, FiniteSets, TLC

VARIABLES now, config, store, out, lastScan, walk, stop, stage

vars == <<now, config, store, out, lastScan, walk, stop, stage>>

(***************************************************************************)
(* Bounds of the model.                                                    *)
(***************************************************************************)
MaxTicks == 1
MaxRecords == 2
MaxFiles == 2
\* Resolution of the clock: ticks per hour.
TicksPerHour == 2
MaxBacklog == 12
\* The directories of the tree are 0..MaxDir, 0 being the root.
MaxDir == 7
\* Files per kind of change in the repository; words after the command.
MaxChanges == 2
MaxArgs == 2

(***************************************************************************)
(* Program constants.                                                      *)
(***************************************************************************)
HoursPerDay == 24
RateLimitHours == 1
DefaultStaleDays == 30

TicksPerDay == HoursPerDay * TicksPerHour

\* 2024-03-01T00:00, the "now" of the spec's worked example.
StartNow == 60 * TicksPerDay

(***************************************************************************)
(* Python values.                                                          *)
(***************************************************************************)
NoKey == "<missing>"
IntFive == "<int 5>"
DateObj == "<date 2024-01-01>"

IsStr(v) == v \notin {NoKey, IntFive, DateObj}

\* type(v) of a value that is present.
TypeOf(v) == IF v = IntFive THEN "int" ELSE IF v = DateObj THEN "date" ELSE "str"

\* bool(v) of a value read with dict.get: None and "" are falsy.
Truthy(v) == v \notin {NoKey, ""}

\* a or b
Or(a, b) == IF Truthy(a) THEN a ELSE b

\* d.get(k, default)
GetDefault(v, default) == IF v = NoKey THEN default ELSE v

\* str.lower() on the strings of the model.
Lower(s) ==
  CASE s = "Archived" -> "archived"
    [] s = "DONE" -> "done"
    [] s = "Rejected" -> "rejected"
    [] s = "WontFix" -> "wontfix"
    [] OTHER -> s

\* datetime.strptime(s, "%Y-%m-%d") as days since 2024-01-01; -1000 stands
\* for ValueError.
ValueError == -1000
strptime(s) ==
  CASE s = "2024-01-01" -> 0
    [] s = "2024-01-30" -> 29
    [] s = "2024-01-31" -> 30
    [] s = "2024-02-28" -> 58
    [] s = "2024-02-29" -> 59
    [] s = "2024-03-01" -> 60
    [] s = "2024-03-05" -> 64
    [] OTHER -> ValueError

\* datetime.fromisoformat(s) as ticks since 2024-01-01T00:00.
fromisoformat(s) ==
  CASE s = "2024-02-29T22:00:00" -> StartNow - 2 * TicksPerHour
    [] s = "2024-02-29T23:00:00" -> StartNow - TicksPerHour
    [] s = "2024-03-01T00:00:00" -> StartNow
    [] s = "2024-03-01T05:00:00" -> StartNow + 5 * TicksPerHour
    [] OTHER -> ValueError

\* The order of Python's str comparison on the strings the hooks sort by.
StrOrder ==
  <<"", "2024-01-01", "2024-01-30", "2024-01-31", "2024-02-28", "2024-02-29",
    "2024-03-01", "2024-03-05", "soon">>

StrRank(s) == CHOOSE i \in 1..Len(StrOrder) : StrOrder[i] = s

(***************************************************************************)
(* freshness-check.py: check_entity_freshness                              *)
(***************************************************************************)
\* A check of the flag that takes every entity as enabled.
IsEnabledAlways(def) == TRUE

\* entity_config.get("enabled", False)
IsEnabled(def) == def.enabled

\* timedelta.days of (now - record_date): whole days, rounded down.
DaysOld(t, day) == (t - day * TicksPerDay) \div TicksPerDay

\* record_date < stale_threshold, where stale_threshold = now - stale_days.
OlderThanThreshold(t, day, staleDays) ==
  day * TicksPerDay < t - staleDays * TicksPerDay

\* The closed statuses of the monthly branch (compared as written).
MonthlyClosed == {"archived", "completed", "done", "canceled"}

\* The closed statuses of the records.yaml branch (compared lower-cased).
RecordsClosed ==
  {"archived", "completed", "done", "canceled", "rejected", "tested",
   "implemented"}

\* The stale item the monthly branch appends.
MonthlyItem(entity, r, t) ==
  [entity |-> entity,
   id |-> GetDefault(r.id, GetDefault(r.topic, "Unknown")),
   title |-> NoKey,
   status |-> NoKey,
   date |-> r.date,
   days_old |-> DaysOld(t, strptime(r.date))]

\* Whether the monthly branch appends the (mapping, validly dated) record.
MonthlyStale(r, t, staleDays) ==
  /\ OlderThanThreshold(t, strptime(r.date), staleDays)
  /\ GetDefault(r.status, "unknown") \notin MonthlyClosed

\* The loop over the records of one monthly file, inside the file's try:
\* an exception leaves the loop and keeps what was appended before it.
RECURSIVE ScanMonthly(_, _, _, _, _, _)
ScanMonthly(entity, records, i, t, staleDays, acc) ==
  IF i > Len(records) THEN acc
  ELSE LET r == records[i] IN
    IF ~r.map THEN acc                                  \* AttributeError
    ELSE IF ~Truthy(r.date)
      THEN ScanMonthly(entity, records, i + 1, t, staleDays, acc)
    ELSE IF ~IsStr(r.date) THEN acc                     \* TypeError
    ELSE IF strptime(r.date) = ValueError THEN acc      \* ValueError
    ELSE IF MonthlyStale(r, t, staleDays)
      THEN ScanMonthly(entity, records, i + 1, t, staleDays,
                       Append(acc, MonthlyItem(entity, r, t)))
    ELSE ScanMonthly(entity, records, i + 1, t, staleDays, acc)

\* One iteration of "for yaml_file in data_dir.glob('*.yaml')".
ScanFile(entity, file, t, staleDays, acc) ==
  IF file.name = "schema.yaml" THEN acc
  ELSE IF ~file.parse THEN acc
  ELSE ScanMonthly(entity, file.records, 1, t, staleDays, acc)

\* A loop over the monthly files with the try around the whole loop: the
\* first file that does not parse ends it.
RECURSIVE ScanFilesOuterTry(_, _, _, _, _, _)
ScanFilesOuterTry(entity, files, i, t, staleDays, acc) ==
  IF i > Len(files) THEN acc
  ELSE IF files[i].name # "schema.yaml" /\ ~files[i].parse THEN acc
  ELSE ScanFilesOuterTry(entity, files, i + 1, t, staleDays,
                         ScanFile(entity, files[i], t, staleDays, acc))

\* The loop over the monthly files, in the order glob yields them.
RECURSIVE ScanFiles(_, _, _, _, _, _)
ScanFiles(entity, files, i, t, staleDays, acc) ==
  IF i > Len(files) THEN acc
  ELSE ScanFiles(entity, files, i + 1, t, staleDays,
                 ScanFile(entity, files[i], t, staleDays, acc))

\* created or date or date_created or date_updated
ResolveDate(r) == Or(Or(Or(r.created, r.date), r.date_created), r.date_updated)

\* str(date_str)
Str(v) == IF v = IntFive THEN "5" ELSE IF v = DateObj THEN "2024-01-01" ELSE v

\* The stale item the records.yaml branch appends.
RecordsItem(entity, r, t) ==
  [entity |-> entity,
   id |-> Or(Or(r.id, r.number), GetDefault(r.title, "Unknown")),
   title |-> GetDefault(r.title, ""),
   status |-> Lower(GetDefault(r.status, "")),
   date |-> Str(ResolveDate(r)),
   days_old |-> DaysOld(t, strptime(Str(ResolveDate(r))))]

\* The loop over data["records"], inside the try around the whole file.
RECURSIVE ScanRecords(_, _, _, _, _, _)
ScanRecords(entity, records, i, t, staleDays, acc) ==
  IF i > Len(records) THEN acc
  ELSE LET r == records[i] IN
    IF ~r.map THEN acc                                  \* AttributeError
    ELSE IF ~Truthy(ResolveDate(r))
      THEN ScanRecords(entity, records, i + 1, t, staleDays, acc)
    ELSE IF strptime(Str(ResolveDate(r))) = ValueError
      THEN ScanRecords(entity, records, i + 1, t, staleDays, acc)
    ELSE IF ~IsStr(GetDefault(r.status, "")) THEN acc   \* AttributeError
    ELSE IF Lower(GetDefault(r.status, "")) \in RecordsClosed
      THEN ScanRecords(entity, records, i + 1, t, staleDays, acc)
    ELSE IF OlderThanThreshold(t, strptime(Str(ResolveDate(r))), staleDays)
      THEN ScanRecords(entity, records, i + 1, t, staleDays,
                       Append(acc, RecordsItem(entity, r, t)))
    ELSE ScanRecords(entity, records, i + 1, t, staleDays, acc)

\* The files of a directory with the given name, in glob order.
FilesNamed(files, name) == SelectSeq(files, LAMBDA f : f.name = name)

\* freshness_config.get("stale_after_days", 30)
StaleDays(def) ==
  IF def.stale_after_days = {} THEN DefaultStaleDays
  ELSE CHOOSE n \in def.stale_after_days : TRUE

\* check_entity_freshness(project_root, entity, config) at time t, for an
\* entity of config["entities"]: the stale items, whether an uncaught
\* exception left the function, whether the entity's storage was accessed.
check_entity_freshness(cfg, st, entity, t) ==
  LET def == cfg.defs[entity]
      dir == st[entity]
  IN
  IF ~def.map THEN [crash |-> TRUE, items |-> <<>>, touched |-> FALSE]
  ELSE IF ~IsEnabled(def) THEN [crash |-> FALSE, items |-> <<>>, touched |-> FALSE]
  ELSE IF ~dir.exists THEN [crash |-> FALSE, items |-> <<>>, touched |-> TRUE]
  ELSE IF def.partitioned
    THEN [crash |-> FALSE,
          items |-> ScanFiles(entity, dir.files, 1, t, StaleDays(def), <<>>),
          touched |-> TRUE]
  ELSE LET fs == FilesNamed(dir.files, "records.yaml") IN
    [crash |-> FALSE,
     items |-> IF fs = <<>> \/ ~fs[1].parse THEN <<>>
               ELSE ScanRecords(entity, fs[1].records, 1, t, StaleDays(def), <<>>),
     touched |-> TRUE]

(***************************************************************************)
(* freshness-check.py: main                                                *)
(***************************************************************************)
\* An insertion that puts x before the items of its own age.
RECURSIVE InsertDescUnstable(_, _)
InsertDescUnstable(sorted, x) ==
  IF sorted = <<>> THEN <<x>>
  ELSE IF Head(sorted).days_old > x.days_old
    THEN <<Head(sorted)>> \o InsertDescUnstable(Tail(sorted), x)
  ELSE <<x>> \o sorted

\* Where list.sort(key=days_old, reverse=True) puts x among the already
\* placed items: after every item that is at least as old (the sort is
\* stable, also under reverse=True).
RECURSIVE InsertDesc(_, _)
InsertDesc(sorted, x) ==
  IF sorted = <<>> THEN <<x>>
  ELSE IF Head(sorted).days_old >= x.days_old
    THEN <<Head(sorted)>> \o InsertDesc(Tail(sorted), x)
  ELSE <<x>> \o sorted

\* all_stale.sort(key=lambda x: x.get("days_old", 0), reverse=True)
RECURSIVE SortStale(_)
SortStale(items) ==
  IF items = <<>> THEN <<>>
  ELSE InsertDesc(SortStale(SubSeq(items, 1, Len(items) - 1)),
                  items[Len(items)])

\* config.get("entities", {}).keys(), in the order of the file.
EntityOrder(cfg) == IF cfg.entities = "mapping" THEN cfg.order ELSE <<>>

\* The loop "for entity in config['entities'].keys()": the items collected,
\* the entities whose storage was accessed, and whether an exception left it.
RECURSIVE CollectStale(_, _, _, _, _)
CollectStale(cfg, st, t, i, acc) ==
  IF i > Len(EntityOrder(cfg)) THEN acc
  ELSE LET r == check_entity_freshness(cfg, st, EntityOrder(cfg)[i], t)
           touched == IF r.touched THEN acc.touched \cup {EntityOrder(cfg)[i]}
                      ELSE acc.touched
       IN IF r.crash
            THEN [crash |-> TRUE, items |-> acc.items, touched |-> touched]
          ELSE CollectStale(cfg, st, t, i + 1,
                 [crash |-> FALSE, items |-> acc.items \o r.items,
                  touched |-> touched])

\* load_config: None for a file that does not parse; "not config" also
\* holds for an empty file.
ConfigLoaded(cfg) == cfg.kind \notin {"unparseable", "empty"}

\* The rate limit of main: last_check is set, parses, and lies less than an
\* hour before now.
RateLimited(cfg, t) ==
  /\ Truthy(cfg.last_check)
  /\ fromisoformat(cfg.last_check) # ValueError
  /\ t - fromisoformat(cfg.last_check) < RateLimitHours * TicksPerHour

\* seq[:n]
Take(seq, n) == SubSeq(seq, 1, IF Len(seq) < n THEN Len(seq) ELSE n)

\* top_stale = all_stale[:10], and the slice top_stale[:5] of the digest.
DetailLimit == 10
DigestLimit == 5

\* One "- [entity] id: title (status: s) - n days old" line of the digest;
\* the title and the status parts are left out ("") when they are falsy.
DigestLine(item) ==
  [entity |-> item.entity,
   id |-> item.id,
   title |-> IF Truthy(item.title) THEN item.title ELSE "",
   status |-> IF Truthy(item.status) THEN item.status ELSE "",
   days |-> item.days_old]

\* A digest whose "more" line counts from the detail list of ten.
ContextLinesMoreOfDetails(all_stale) ==
  LET shown == Take(all_stale, DigestLimit)
  IN [count |-> Len(all_stale),
      lines |-> [i \in 1..Len(shown) |-> DigestLine(shown[i])],
      more |-> IF Len(all_stale) > DetailLimit
                 THEN {Len(all_stale) - DetailLimit}
               ELSE {}]

\* context_lines: the count of the header, the item lines and the number
\* the "... and n more" line states (no such line: the empty set).
ContextLines(all_stale) ==
  LET top_stale == Take(all_stale, DetailLimit)
      shown == Take(top_stale, DigestLimit)
  IN [count |-> Len(all_stale),
      lines |-> [i \in 1..Len(shown) |-> DigestLine(shown[i])],
      more |-> IF Len(all_stale) > DigestLimit
                 THEN {Len(all_stale) - DigestLimit}
               ELSE {}]

NoLines == [count |-> 0, lines |-> <<>>, more |-> {}]

\* The JSON object main prints: the keys "result" and "message" only (the
\* dict "output" with "details" and "total_stale" is built and dropped).
Response(all_stale) ==
  [result |-> "continue", message |-> ContextLines(all_stale)]

NoResponse == [result |-> "", message |-> NoLines]

\* What a run that ends before the scan leaves behind.
NoScan(hook, t, code) ==
  [hook |-> hook, at |-> t, exit |-> code, scanned |-> FALSE,
   collected |-> <<>>, stale |-> <<>>, touched |-> {}, printed |-> FALSE,
   activities |-> <<>>, response |-> NoResponse]

\* A run that records its time in meta.last_freshness_check.
WrittenConfigStamped(cfg, t) ==
  IF cfg.kind = "mapping" /\ cfg.meta = "mapping"
    THEN [cfg EXCEPT !.last_check = "2024-03-01T00:00:00"]
  ELSE cfg

\* The configuration file after a run of either hook: config.yaml is opened
\* for reading only (load_config) and nothing is written back.
WrittenConfig(cfg, t) == cfg

\* main() of freshness-check.py at time t.
FreshnessMain(cfg, st, t) ==
  IF ~ConfigLoaded(cfg) THEN NoScan("freshness", t, 0)
  ELSE IF cfg.kind # "mapping" THEN NoScan("freshness", t, 1)
  ELSE IF cfg.meta \in {"null", "scalar"} THEN NoScan("freshness", t, 1)
  ELSE IF cfg.meta = "mapping" /\ RateLimited(cfg, t)
    THEN NoScan("freshness", t, 0)
  ELSE IF cfg.entities \in {"null", "scalar"}
    THEN [NoScan("freshness", t, 1) EXCEPT !.scanned = TRUE]
  ELSE LET c == CollectStale(cfg, st, t, 1,
                  [crash |-> FALSE, items |-> <<>>, touched |-> {}])
       IN IF c.crash
            THEN [NoScan("freshness", t, 1) EXCEPT
                    !.scanned = TRUE, !.touched = c.touched]
          ELSE [hook |-> "freshness", at |-> t, exit |-> 0, scanned |-> TRUE,
                collected |-> c.items, stale |-> SortStale(c.items),
                touched |-> c.touched, printed |-> c.items # <<>>,
                activities |-> <<>>,
                response |-> IF c.items # <<>>
                               THEN Response(SortStale(c.items))
                             ELSE NoResponse]

(***************************************************************************)
(* session-context.py                                                      *)
(***************************************************************************)
\* The statuses count_entity_records does not count as active.
MonthlyInactive == {"archived", "canceled"}
RecordsInactive == {"archived", "completed", "done", "canceled", "rejected"}

\* The loop "for r in records" of count_entity_records: the number of active
\* records counted before the loop ends or an exception leaves it.
RECURSIVE CountActive(_, _, _, _)
CountActive(records, i, inactive, n) ==
  IF i > Len(records) THEN [raised |-> FALSE, n |-> n]
  ELSE LET r == records[i] IN
    IF ~r.map \/ ~IsStr(GetDefault(r.status, ""))
      THEN [raised |-> TRUE, n |-> n]
    ELSE CountActive(records, i + 1, inactive,
           IF Lower(GetDefault(r.status, "")) \in inactive THEN n ELSE n + 1)

\* The loop over the monthly files of count_entity_records.
RECURSIVE CountFiles(_, _, _)
CountFiles(files, i, acc) ==
  IF i > Len(files) THEN acc
  ELSE IF files[i].name = "schema.yaml" \/ ~files[i].parse
    THEN CountFiles(files, i + 1, acc)
  ELSE CountFiles(files, i + 1,
         [total |-> acc.total + Len(files[i].records),
          active |-> CountActive(files[i].records, 1, MonthlyInactive,
                                 acc.active).n])

\* count_entity_records(project_root, entity, config).
count_entity_records(cfg, st, entity) ==
  LET def == cfg.defs[entity]
      dir == st[entity]
      zero == [total |-> 0, active |-> 0]
  IN
  IF ~def.map THEN [crash |-> TRUE, stats |-> zero, touched |-> FALSE]
  ELSE IF ~IsEnabled(def) THEN [crash |-> FALSE, stats |-> zero, touched |-> FALSE]
  ELSE IF ~dir.exists THEN [crash |-> FALSE, stats |-> zero, touched |-> TRUE]
  ELSE IF def.partitioned
    THEN [crash |-> FALSE, stats |-> CountFiles(dir.files, 1, zero),
          touched |-> TRUE]
  ELSE LET fs == FilesNamed(dir.files, "records.yaml") IN
    [crash |-> FALSE,
     stats |-> IF fs = <<>> \/ ~fs[1].parse THEN zero
               ELSE [total |-> Len(fs[1].records),
                     active |-> CountActive(fs[1].records, 1, RecordsInactive, 0).n],
     touched |-> TRUE]

\* The rank of a sort key among the keys of its type (the model has one
\* int and one date; keys of different types do not compare).
KeyRank(k) == IF IsStr(k) THEN StrRank(k) ELSE 0

\* sorted(..., reverse=True) on records paired with their keys: stable,
\* greatest key first.
RECURSIVE InsertKeyDesc(_, _)
InsertKeyDesc(sorted, x) ==
  IF sorted = <<>> THEN <<x>>
  ELSE IF KeyRank(Head(sorted).k) >= KeyRank(x.k)
    THEN <<Head(sorted)>> \o InsertKeyDesc(Tail(sorted), x)
  ELSE <<x>> \o sorted

RECURSIVE SortKeyDesc(_)
SortKeyDesc(pairs) ==
  IF pairs = <<>> THEN <<>>
  ELSE InsertKeyDesc(SortKeyDesc(SubSeq(pairs, 1, Len(pairs) - 1)),
                     pairs[Len(pairs)])

\* Whether sorted() raises: an element that is not a mapping (the key
\* function fails), or keys of different types (TypeError).
SortRaises(records, keys) ==
  \/ \E i \in 1..Len(records) : ~records[i].map
  \/ \E i, j \in 1..Len(keys) : TypeOf(keys[i]) # TypeOf(keys[j])

\* key=lambda x: x.get("date", "")
MonthlyKey(r) == GetDefault(r.date, "")

\* key=lambda x: x.get("created") or x.get("date_created") or ""
RecordsKey(r) == Or(Or(r.created, r.date_created), "")

\* The most recent record of one monthly file: the first record with a date
\* in descending order of date; none when the file does not parse, sorting
\* raises, or no record has a date.
NoRecord == [found |-> FALSE]

RECURSIVE FirstDated(_, _)
FirstDated(pairs, i) ==
  IF i > Len(pairs) THEN NoRecord
  ELSE IF Truthy(pairs[i].r.date)
    THEN [found |-> TRUE, r |-> pairs[i].r, date |-> pairs[i].r.date]
  ELSE FirstDated(pairs, i + 1)

MonthlyRecent(file) ==
  IF ~file.parse THEN NoRecord
  ELSE LET keys == [i \in 1..Len(file.records) |-> MonthlyKey(file.records[i])]
       IN IF SortRaises(file.records, keys) THEN NoRecord
          ELSE FirstDated(
                 SortKeyDesc([i \in 1..Len(file.records) |->
                                [k |-> keys[i], r |-> file.records[i]]]), 1)

\* The rank of a file name under sorted(data_dir.glob("*.yaml")).
FileOrder == <<"2024-01.yaml", "2024-02.yaml", "2024-03.yaml", "records.yaml",
               "schema.yaml">>
FileRank(name) == CHOOSE i \in 1..Len(FileOrder) : FileOrder[i] = name

\* sorted(data_dir.glob("*.yaml"), reverse=True)
RECURSIVE InsertFileDesc(_, _)
InsertFileDesc(sorted, f) ==
  IF sorted = <<>> THEN <<f>>
  ELSE IF FileRank(Head(sorted).name) >= FileRank(f.name)
    THEN <<Head(sorted)>> \o InsertFileDesc(Tail(sorted), f)
  ELSE <<f>> \o sorted

RECURSIVE SortFilesDesc(_)
SortFilesDesc(files) ==
  IF files = <<>> THEN <<>>
  ELSE InsertFileDesc(SortFilesDesc(SubSeq(files, 1, Len(files) - 1)),
                      files[Len(files)])

\* The loop over the monthly files of get_recent_activity, latest name
\* first, which stops at the first file that yields a dated record.
RECURSIVE RecentInFiles(_, _)
RecentInFiles(files, i) ==
  IF i > Len(files) THEN NoRecord
  ELSE IF files[i].name = "schema.yaml" THEN RecentInFiles(files, i + 1)
  ELSE IF MonthlyRecent(files[i]).found THEN MonthlyRecent(files[i])
  ELSE RecentInFiles(files, i + 1)

\* The records.yaml branch of get_recent_activity: the first record in
\* descending order of "created or date_created", with that as its date.
RecordsRecent(file) ==
  IF ~file.parse \/ file.records = <<>> THEN NoRecord
  ELSE LET keys == [i \in 1..Len(file.records) |-> RecordsKey(file.records[i])]
       IN IF SortRaises(file.records, keys) THEN NoRecord
          ELSE LET first == SortKeyDesc([i \in 1..Len(file.records) |->
                               [k |-> keys[i], r |-> file.records[i]]])[1].r
               IN [found |-> Truthy(Or(first.created, first.date_created)),
                   r |-> first,
                   date |-> Or(first.created, first.date_created)]

\* entity.rstrip("s")
Rstrip(entity) ==
  CASE entity = "tasks" -> "task"
    [] entity = "notes" -> "note"
    [] entity = "adrs" -> "adr"
    [] entity = "discussions" -> "discussion"
    [] entity = "ideas" -> "idea"
    [] entity = "goals" -> "goal"
    [] OTHER -> entity

\* The line appended for an entity's most recent record.
ActivityLine(entity, def, recent) ==
  [entity |-> entity,
   singular |-> GetDefault(def.singular, Rstrip(entity)),
   title |-> Or(Or(recent.r.title, recent.r.topic), GetDefault(recent.r.id, "")),
   date |-> recent.date]

\* The most recent record get_recent_activity finds for an enabled entity
\* whose directory exists.
EntityRecent(def, dir) ==
  IF def.partitioned THEN RecentInFiles(SortFilesDesc(dir.files), 1)
  ELSE LET fs == FilesNamed(dir.files, "records.yaml") IN
    IF fs = <<>> THEN NoRecord ELSE RecordsRecent(fs[1])

\* The loop of get_recent_activity over config["entities"].items().
RECURSIVE CollectActivity(_, _, _, _)
CollectActivity(cfg, st, i, acc) ==
  IF i > Len(EntityOrder(cfg)) THEN acc
  ELSE LET e == EntityOrder(cfg)[i]
           def == cfg.defs[e]
       IN
    IF ~def.map THEN [acc EXCEPT !.crash = TRUE]
    ELSE IF ~IsEnabled(def) THEN CollectActivity(cfg, st, i + 1, acc)
    ELSE IF ~st[e].exists
      THEN CollectActivity(cfg, st, i + 1,
             [acc EXCEPT !.touched = @ \cup {e}])
    ELSE LET recent == EntityRecent(def, st[e]) IN
      CollectActivity(cfg, st, i + 1,
        [acc EXCEPT !.touched = @ \cup {e},
                    !.lines = IF recent.found
                                THEN Append(@, ActivityLine(e, def, recent))
                              ELSE @])

ActivityLimit == 5

\* The loop of main over config["entities"].keys() calling
\* count_entity_records.
RECURSIVE CollectCounts(_, _, _, _)
CollectCounts(cfg, st, i, acc) ==
  IF i > Len(EntityOrder(cfg)) THEN acc
  ELSE LET r == count_entity_records(cfg, st, EntityOrder(cfg)[i])
           touched == IF r.touched THEN acc.touched \cup {EntityOrder(cfg)[i]}
                      ELSE acc.touched
       IN IF r.crash THEN [acc EXCEPT !.crash = TRUE, !.touched = touched]
          ELSE CollectCounts(cfg, st, i + 1, [acc EXCEPT !.touched = touched])

\* main() of session-context.py at time t.
SessionMain(cfg, st, t) ==
  IF ~ConfigLoaded(cfg) THEN NoScan("session", t, 0)
  ELSE IF cfg.kind # "mapping" THEN NoScan("session", t, 1)
  ELSE IF cfg.entities \in {"null", "scalar"} THEN NoScan("session", t, 1)
  ELSE LET counts == CollectCounts(cfg, st, 1, [crash |-> FALSE, touched |-> {}])
       IN IF counts.crash
            THEN [NoScan("session", t, 1) EXCEPT !.touched = counts.touched]
          ELSE LET act == CollectActivity(cfg, st, 1,
                            [crash |-> FALSE, touched |-> counts.touched,
                             lines |-> <<>>])
               IN [hook |-> "session", at |-> t,
                   exit |-> IF act.crash THEN 1 ELSE 0,
                   scanned |-> FALSE, collected |-> <<>>, stale |-> <<>>,
                   touched |-> act.touched,
                   printed |-> ~act.crash,
                   activities |-> IF act.crash THEN <<>>
                                  ELSE Take(act.lines, ActivityLimit),
                   response |-> NoResponse]

(***************************************************************************)
(* freshness-check.py: find_project_root                                   *)
(*                                                                         *)
(* The file system is a tree of directories 0..MaxDir in which directory   *)
(* n > 0 lies in directory (n - 1) \div Branching.  walk is the state of   *)
(* one call: the working directory, the directories that hold              *)
(* .claude/data/config.yaml, the list the loop runs over, the position in  *)
(* it, the number of directories examined and what was returned.           *)
(***************************************************************************)
Branching == 2
Dirs == 0..MaxDir

\* path.parent
Parent(n) == (n - 1) \div Branching

\* A list of the ancestors that starts at the root.
RECURSIVE ParentsRootFirst(_)
ParentsRootFirst(n) ==
  IF n = 0 THEN <<>> ELSE Append(ParentsRootFirst(Parent(n)), Parent(n))

\* list(cwd.parents): the ancestors, nearest first, up to the root.
RECURSIVE Parents(_)
Parents(n) == IF n = 0 THEN <<>> ELSE <<Parent(n)>> \o Parents(Parent(n))

\* The state of a call that has not examined anything yet.
StartWalk(cwd, configs) ==
  [cwd |-> cwd, configs |-> configs, paths |-> <<cwd>> \o Parents(cwd),
   i |-> 1, examined |-> 0, done |-> FALSE, root |-> {}]

\* No call of find_project_root under way (runs of the other hooks).
IdleWalk == [StartWalk(0, {}) EXCEPT !.done = TRUE]

\* One iteration of "for path in [cwd] + list(cwd.parents)": return the
\* path when its config.yaml exists; after the last path, return None.
ExaminePath(w) ==
  LET path == w.paths[w.i] IN
  IF path \in w.configs
    THEN [w EXCEPT !.examined = @ + 1, !.done = TRUE, !.root = {path}]
  ELSE IF w.i = Len(w.paths)
    THEN [w EXCEPT !.examined = @ + 1, !.done = TRUE, !.root = {}]
  ELSE [w EXCEPT !.examined = @ + 1, !.i = @ + 1]

(***************************************************************************)
(* pre-stop-commit.py                                                      *)
(*                                                                         *)
(* stop holds the repository (the number of staged, unstaged and untracked *)
(* files), what each of the four git queries of a run does, and the        *)
(* outcome of the run.  A file list is modelled by its length.             *)
(***************************************************************************)
\* What subprocess.run of a git query may do: print the files and exit 0,
\* exit non-zero with an empty stdout (the return code is not looked at),
\* raise TimeoutExpired after timeout=5, or raise OSError.
QueryOutcomes == {"ok", "nonzero", "timeout", "oserror"}

Raises(outcome) == outcome \in {"timeout", "oserror"}

\* [f for f in stdout.strip().split("\n") if f]
QueryFiles(n, outcome) == IF outcome = "ok" THEN n ELSE 0

NoChanges == [staged |-> 0, unstaged |-> 0, untracked |-> 0]

\* get_git_status(): the three queries run inside one try, whose handlers
\* return empty lists.
get_git_status(repo, q) ==
  IF \E i \in 1..3 : Raises(q[i]) THEN NoChanges
  ELSE [staged |-> QueryFiles(repo.staged, q[1]),
        unstaged |-> QueryFiles(repo.unstaged, q[2]),
        untracked |-> QueryFiles(repo.untracked, q[3])]

\* get_diff_stat(): the stat text is there when the query prints it.
get_diff_stat(repo, q) == q[4] = "ok" /\ repo.staged > 0

\* A run that has not happened.
NoStop(repo, q) ==
  [repo |-> repo, queries |-> q, ran |-> FALSE, exit |-> 0, decision |-> "",
   listed |-> NoChanges, diff_stat |-> FALSE]

IdleStop == NoStop(NoChanges, <<"ok", "ok", "ok", "ok">>)

\* main() of pre-stop-commit.py.
StopMain(repo, q) ==
  LET found == get_git_status(repo, q) IN
  IF found = NoChanges
    THEN [NoStop(repo, q) EXCEPT !.ran = TRUE]
  ELSE [repo |-> repo, queries |-> q, ran |-> TRUE, exit |-> 2,
        decision |-> "block", listed |-> found,
        diff_stat |-> found.staged > 0 /\ get_diff_stat(repo, q)]

(***************************************************************************)
(* auto-stage.py                                                           *)
(*                                                                         *)
(* A path string is a sequence of tokens: the separator "/" and chunks of  *)
(* characters between separators, cut so that a common prefix of two       *)
(* strings of the model is a common prefix of their token sequences        *)
(* ("/work/app-old" is "/", "work", "/", "app", "-old").  A command is the *)
(* sequence of its whitespace-separated words.                             *)
(***************************************************************************)
FILE_MODIFYING_COMMANDS ==
  {"chmod", "chown", "touch", "mv", "cp", "ln", "sed", "awk", "truncate",
   "install"}

\* The first character of the chunks of the model.
FirstChar(tok) ==
  CASE tok = "-R" -> "-"
    [] tok = "+x" -> "+"
    [] tok = "755" -> "7"
    [] tok = "/" -> "/"
    [] tok = ".." -> "."
    [] tok \in {"app", "a.py"} -> "a"
    [] tok \in {"src", "secret"} -> "s"
    [] tok = "README.md" -> "R"
    [] tok = "notes" -> "n"
    [] OTHER -> "?"

\* The extension of a chunk, for str.endswith(".py") and the like.
Extension(tok) ==
  CASE tok = "a.py" -> ".py"
    [] tok = "k.json" -> ".json"
    [] tok = "README.md" -> ".md"
    [] OTHER -> ""

\* str.startswith(prefix)
StartsWith(str, prefix) ==
  Len(str) >= Len(prefix) /\ SubSeq(str, 1, Len(prefix)) = prefix

\* os.path.isabs(path)
IsAbs(path) == path # <<>> /\ path[1] = "/"

\* os.path.join(a, b) for a relative b.
Join(a, b) == a \o <<"/">> \o b

\* The components of a path, each the sequence of its chunks.
RECURSIVE SplitPath(_, _, _)
SplitPath(path, cur, acc) ==
  IF path = <<>> THEN (IF cur = <<>> THEN acc ELSE Append(acc, cur))
  ELSE IF Head(path) = "/"
    THEN SplitPath(Tail(path), <<>>, IF cur = <<>> THEN acc ELSE Append(acc, cur))
  ELSE SplitPath(Tail(path), Append(cur, Head(path)), acc)

\* The components left when every ".." has taken its parent away.
RECURSIVE Resolve(_, _)
Resolve(comps, acc) ==
  IF comps = <<>> THEN acc
  ELSE IF Head(comps) = <<"..">>
    THEN Resolve(Tail(comps),
                 IF acc = <<>> THEN acc ELSE SubSeq(acc, 1, Len(acc) - 1))
  ELSE Resolve(Tail(comps), Append(acc, Head(comps)))

\* The file a path names, from the working directory of the hook when the
\* path is relative.
FileOf(path, cwd) ==
  Resolve(SplitPath(IF IsAbs(path) THEN path ELSE Join(cwd, path), <<>>, <<>>),
          <<>>)

\* os.path.exists(path) in the file system fs.
Exists(path, cwd, fs) == FileOf(path, cwd) \in fs

\* The number of leading components two files share.
RECURSIVE CommonLen(_, _)
CommonLen(a, b) ==
  IF a = <<>> \/ b = <<>> \/ Head(a) # Head(b) THEN 0
  ELSE 1 + CommonLen(Tail(a), Tail(b))

\* os.path.relpath(path, start), as components.
RelPath(path, start, cwd) ==
  LET f == FileOf(path, cwd)
      d == FileOf(start, cwd)
      k == CommonLen(f, d)
  IN [i \in 1..(Len(d) - k) |-> <<"..">>] \o SubSeq(f, k + 1, Len(f))

\* cmd_parts[0].split("/")[-1]
BaseCmd(word) == word[Len(word)]

\* part.startswith("-")
IsFlag(part) == FirstChar(part[1]) = "-"

\* part.isdigit() or part.startswith("+"), ("u"), ("g"), ("o"), ("a")
IsMode(part) ==
  part = <<"755">> \/ FirstChar(part[1]) \in {"+", "u", "g", "o", "a"}

\* "/" in part or part.endswith(".py") or ... (".js")
LooksLikePath(part) ==
  \/ \E i \in 1..Len(part) : part[i] = "/"
  \/ Extension(part[Len(part)]) \in {".py", ".sh", ".md", ".json", ".ts", ".js"}

\* The loop "for part in cmd_parts[1:]" of extract_paths_from_bash.
RECURSIVE ExtractParts(_, _, _, _, _, _, _)
ExtractParts(parts, i, base_cmd, project_dir, cwd, fs, acc) ==
  IF i > Len(parts) THEN acc
  ELSE LET part == parts[i]
           full_path == IF project_dir # <<>> THEN Join(project_dir, part)
                        ELSE part
           next == IF IsFlag(part) THEN acc
                   ELSE IF base_cmd = "chmod" /\ IsMode(part) THEN acc
                   ELSE IF ~LooksLikePath(part) THEN acc
                   ELSE IF IsAbs(part)
                     THEN (IF project_dir # <<>> /\ StartsWith(part, project_dir)
                             THEN Append(acc, part)
                           ELSE acc)
                   ELSE IF Exists(full_path, cwd, fs) THEN Append(acc, full_path)
                   ELSE acc
       IN ExtractParts(parts, i + 1, base_cmd, project_dir, cwd, fs, next)

\* extract_paths_from_bash(command, project_dir)
extract_paths_from_bash(command, project_dir, cwd, fs) ==
  IF command = <<>> THEN <<>>
  ELSE IF BaseCmd(command[1]) \notin FILE_MODIFYING_COMMANDS THEN <<>>
  ELSE ExtractParts(Tail(command), 1, BaseCmd(command[1]), project_dir, cwd,
                    fs, <<>>)

\* The loop "for file_path in files_to_stage" of main: the paths git add
\* ran on (stage_file) and the paths of the message, git add exiting 0 or
\* not as git_ok says.
RECURSIVE StageFiles(_, _, _, _, _, _)
StageFiles(files, i, project_dir, cwd, git_ok, acc) ==
  IF i > Len(files) THEN acc
  ELSE IF project_dir # <<>> /\ ~StartsWith(files[i], project_dir)
    THEN StageFiles(files, i + 1, project_dir, cwd, git_ok, acc)
  ELSE StageFiles(files, i + 1, project_dir, cwd, git_ok,
         [added |-> Append(acc.added, files[i]),
          staged |-> IF ~git_ok THEN acc.staged
                     ELSE Append(acc.staged,
                            IF project_dir # <<>>
                              THEN RelPath(files[i], project_dir, cwd)
                            ELSE SplitPath(files[i], <<>>, <<>>))])

\* main() of auto-stage.py on the input and the environment held in s.
AutoStageMain(s) ==
  LET files_to_stage ==
        IF s.tool_name \in {"Write", "Edit"}
          THEN (IF s.file_path # <<>> THEN <<s.file_path>> ELSE <<>>)
        ELSE IF s.tool_name = "Bash"
          THEN extract_paths_from_bash(s.command, s.project_dir, s.cwd, s.fs)
        ELSE <<>>
      r == StageFiles(files_to_stage, 1, s.project_dir, s.cwd, s.git_ok,
                      [added |-> <<>>, staged |-> <<>>])
  IN [s EXCEPT !.done = TRUE, !.added = r.added, !.message = r.staged]

\* The project directory /work/app and the words of the model.
ProjectDir == <<"/", "work", "/", "app">>
InsideAbs == ProjectDir \o <<"/", "src", "/", "a.py">>
SiblingAbs == <<"/", "work", "/", "app", "-old", "/", "a.py">>
OutsideAbs == <<"/", "etc", "/", "hosts">>
DotDotAbs == ProjectDir \o <<"/", "..", "/", "secret", "/", "k.json">>
InsideRel == <<"src", "/", "a.py">>
DotDotRel == <<"..", "/", "secret", "/", "k.json">>
BareRel == <<"README.md">>

FilePaths == {InsideAbs, SiblingAbs, OutsideAbs, DotDotAbs, InsideRel, <<>>}
ArgPool ==
  {InsideAbs, SiblingAbs, OutsideAbs, DotDotAbs, InsideRel, DotDotRel, BareRel,
   <<"notes">>, <<"-R">>, <<"755">>}
Commands == {<<"touch">>, <<"/", "bin", "/", "chmod">>, <<"ls">>}

\* Every file the words of the model name.
AllFiles == {FileOf(path, ProjectDir) : path \in ArgPool \ {<<"-R">>, <<"755">>}}

\* The input and the environment of a run that has not happened.
StageInput(tool_name, file_path, command, project_dir, fs, git_ok) ==
  [tool_name |-> tool_name, file_path |-> file_path, command |-> command,
   project_dir |-> project_dir, cwd |-> ProjectDir, fs |-> fs,
   git_ok |-> git_ok, done |-> FALSE, added |-> <<>>, message |-> <<>>]

IdleStage == [StageInput("", <<>>, <<>>, <<>>, {}, FALSE) EXCEPT !.done = TRUE]

(***************************************************************************)
(* The projects the hooks run on: configuration files and record           *)
(* containers, drawn from bounded pools.                                   *)
(***************************************************************************)
EntitySeq == <<"tasks", "notes", "adrs", "discussions", "ideas", "goals">>
Entities == {EntitySeq[i] : i \in 1..Len(EntitySeq)}
PairEntities == {"tasks", "notes"}

BlankRec ==
  [map |-> TRUE, created |-> NoKey, date |-> NoKey, date_created |-> NoKey,
   date_updated |-> NoKey, status |-> NoKey, id |-> NoKey, number |-> NoKey,
   title |-> NoKey, topic |-> NoKey]

DateFields == <<"created", "date", "date_created", "date_updated">>

\* A sequence element that is not a mapping (a bare string).
NotAMapping == [BlankRec EXCEPT !.map = FALSE]

\* Records 60 days old on 2024-03-01 that differ in status.
Statuses == {"open", "archived", "Archived", "rejected", "wontfix"}
StatusPool ==
  {[BlankRec EXCEPT !.date = "2024-01-01", !.id = "T1-" \o s, !.status = s] :
     s \in Statuses}

\* Open records 31, 30, 2 and 1 days old on 2024-03-01.
AgePool ==
  {[BlankRec EXCEPT !.date = d, !.id = "T2-" \o d, !.status = "open"] :
     d \in {"2024-01-30", "2024-01-31", "2024-02-28", "2024-02-29"}}

\* Open records dated by one field (60 days old), or by two adjacent fields
\* of the fallback list, the first of today and the second 60 days old.
FieldPool ==
  {[BlankRec EXCEPT ![DateFields[i]] = "2024-01-01",
                    !.id = "T3-" \o DateFields[i]] : i \in 1..4}
  \cup
  {[BlankRec EXCEPT ![DateFields[i]] = "2024-03-01",
                    ![DateFields[i + 1]] = "2024-01-01",
                    !.id = "T4-" \o DateFields[i]] :
     i \in 1..3}

\* A well-formed stale record and the malformed or undated ones.
GoodRec == [BlankRec EXCEPT !.created = "2024-01-01", !.date = "2024-01-01",
                            !.id = "G1", !.title = "Good", !.status = "open"]
BadDateRec == [GoodRec EXCEPT !.created = "soon", !.date = "soon", !.id = "B1"]
BadStatusRec == [GoodRec EXCEPT !.status = IntFive, !.id = "S1"]
UndatedRec == [BlankRec EXCEPT !.id = "U1", !.title = "Undated", !.status = "open"]
\* A record whose dates were written unquoted, which YAML reads as dates.
YamlDateRec == [GoodRec EXCEPT !.created = DateObj, !.date = DateObj,
                               !.id = "D1", !.title = "YamlDate"]
MalformedPool ==
  {GoodRec, BadDateRec, BadStatusRec, NotAMapping, UndatedRec, YamlDateRec}

\* Open records 60 days old that carry some of the identity fields.
IdentRec == [BlankRec EXCEPT !.created = "2024-01-01", !.date = "2024-01-01",
                             !.status = "open"]
IdentPool ==
  {IdentRec,
   [IdentRec EXCEPT !.number = "7"],
   [IdentRec EXCEPT !.title = "Only title"],
   [IdentRec EXCEPT !.topic = "Only topic"],
   [IdentRec EXCEPT !.number = "8", !.title = "Numbered", !.topic = "Topical"],
   [IdentRec EXCEPT !.id = "I1", !.number = "9", !.topic = "With id"]}

RecordPools == {StatusPool, AgePool, FieldPool, MalformedPool, IdentPool}

RECURSIVE SeqsUpTo(_, _)
SeqsUpTo(S, n) ==
  IF n = 0 THEN {<<>>}
  ELSE LET shorter == SeqsUpTo(S, n - 1)
       IN shorter \cup {Append(q, x) : q \in {p \in shorter : Len(p) = n - 1}, x \in S}

EntityDef(enabled, partitioned, days, closed) ==
  [map |-> TRUE, enabled |-> enabled, partitioned |-> partitioned,
   stale_after_days |-> days, closed_statuses |-> closed, singular |-> NoKey]

\* An entity definition that is not a mapping (entities: {tasks: 5}).
ScalarDef == [EntityDef(FALSE, FALSE, {}, {}) EXCEPT !.map = FALSE]

MappingConfig(order, defs) ==
  [kind |-> "mapping", meta |-> "missing", last_check |-> NoKey,
   entities |-> "mapping", order |-> order, defs |-> defs]

File(name, records) == [name |-> name, parse |-> TRUE, records |-> records]
Corrupt(name) == [name |-> name, parse |-> FALSE, records |-> <<>>]

NoDir == [exists |-> FALSE, files |-> <<>>]
Dir(files) == [exists |-> TRUE, files |-> files]

DataFileName(partitioned) == IF partitioned THEN "2024-01.yaml" ELSE "records.yaml"

\* One enabled entity, in either layout, with one data file.
InitRecords ==
  \E pool \in RecordPools, partitioned \in BOOLEAN :
  \E records \in SeqsUpTo(pool, MaxRecords),
     days \in (IF pool = AgePool THEN {{}, {1}} ELSE {{}}),
     closed \in (IF pool = StatusPool THEN {{}, {"wontfix"}} ELSE {{}}) :
    /\ config = MappingConfig(<<"tasks">>,
                  [e \in {"tasks"} |-> EntityDef(TRUE, partitioned, days, closed)])
    /\ store = [e \in Entities |->
                  IF e = "tasks"
                    THEN Dir(<<File(DataFileName(partitioned), records)>>)
                  ELSE NoDir]

\* A second well-formed stale record (31 days old on 2024-03-01).
OtherRec == [GoodRec EXCEPT !.created = "2024-01-30", !.date = "2024-01-30",
                            !.id = "G2", !.title = "Other"]

\* A third one, as old as GoodRec.
TwinRec == [GoodRec EXCEPT !.id = "G3", !.title = "Twin"]

PartNames == {"2024-01.yaml", "2024-02.yaml", "schema.yaml"}

\* What a monthly file may hold: nothing that parses, or a record sequence.
PartFiles(name) ==
  {Corrupt(name), File(name, <<>>), File(name, <<GoodRec>>),
   File(name, <<OtherRec>>)}

\* The directory listings of up to n files with distinct names, in every
\* order glob may yield them.
RECURSIVE Listings(_)
Listings(n) ==
  IF n = 0 THEN {<<>>}
  ELSE LET shorter == Listings(n - 1)
       IN shorter \cup
          {Append(q, f) : q \in {p \in shorter : Len(p) = n - 1},
                          f \in UNION {PartFiles(name) : name \in PartNames}}

DistinctNames(files) ==
  \A i, j \in 1..Len(files) : files[i].name = files[j].name => i = j

\* One enabled monthly-partitioned entity with several files.
InitPartitions ==
  \E files \in {l \in Listings(MaxFiles) : DistinctNames(l)} :
    /\ config = MappingConfig(<<"notes">>,
                  [e \in {"notes"} |-> EntityDef(TRUE, TRUE, {}, {})])
    /\ store = [e \in Entities |-> IF e = "notes" THEN Dir(files) ELSE NoDir]

LastChecks ==
  {NoKey, "garbage", "2024-02-29T22:00:00", "2024-02-29T23:00:00",
   "2024-03-01T00:00:00", "2024-03-01T05:00:00"}

\* The shapes a configuration file may have.
ConfigShapes ==
  {[MappingConfig(<<>>, <<>>) EXCEPT !.kind = k, !.entities = "missing"] :
     k \in {"unparseable", "empty", "scalar"}}
  \cup
  {[MappingConfig(IF ents = "mapping" THEN <<"tasks">> ELSE <<>>,
                  [e \in (IF ents = "mapping" THEN {"tasks"} ELSE {}) |-> def])
      EXCEPT !.meta = m[1], !.last_check = m[2], !.entities = ents] :
     m \in ({<<k, NoKey>> : k \in {"missing", "null", "scalar"}}
            \cup {<<"mapping", lc>> : lc \in LastChecks}),
     ents \in {"missing", "null", "scalar", "mapping"},
     def \in {ScalarDef, EntityDef(TRUE, FALSE, {}, {})}}

\* Any configuration shape over one unpartitioned entity, with or without
\* its directory and its records.yaml.
InitConfigs ==
  \E cfg \in ConfigShapes,
     dir \in {NoDir, Dir(<<>>), Dir(<<File("records.yaml", <<GoodRec>>)>>),
              Dir(<<Corrupt("records.yaml")>>)} :
    /\ config = cfg
    /\ store = [e \in Entities |-> IF e = "tasks" THEN dir ELSE NoDir]

\* Two unpartitioned entities, each enabled or not, with records of equal
\* and of different age.
InitEntities ==
  \E en \in [PairEntities -> BOOLEAN],
     first \in SeqsUpTo({GoodRec, OtherRec, TwinRec}, MaxRecords),
     second \in SeqsUpTo({GoodRec, OtherRec, TwinRec}, 1) :
    /\ config = MappingConfig(<<"tasks", "notes">>,
                  [e \in PairEntities |-> EntityDef(en[e], FALSE, {}, {})])
    /\ store = [e \in Entities |->
                  IF e = "tasks" THEN Dir(<<File("records.yaml", first)>>)
                  ELSE IF e = "notes" THEN Dir(<<File("records.yaml", second)>>)
                  ELSE NoDir]

\* Every entity enabled and unpartitioned with one record of its own date,
\* the defined entities being the first five or all six of the order, which
\* runs from the oldest record to the newest or the other way round.
DateSeq == <<"2024-01-01", "2024-01-30", "2024-01-31", "2024-02-28",
             "2024-02-29", "2024-03-01">>

Reverse(seq) == [i \in 1..Len(seq) |-> seq[Len(seq) + 1 - i]]

EntityRec(i) ==
  [GoodRec EXCEPT !.created = DateSeq[i], !.date = DateSeq[i],
                  !.id = "M-" \o EntitySeq[i], !.title = "Latest " \o EntitySeq[i]]

InitManyEntities ==
  \E order \in {EntitySeq, Reverse(EntitySeq)},
     n \in {Len(EntitySeq) - 1, Len(EntitySeq)} :
    /\ config = MappingConfig(SubSeq(order, 1, n),
                  [e \in Entities |-> EntityDef(TRUE, FALSE, {}, {})])
    /\ store = [e \in Entities |->
                  Dir(<<File("records.yaml",
                             <<EntityRec(CHOOSE i \in 1..Len(EntitySeq) :
                                           EntitySeq[i] = e)>>)>>)]

\* One unpartitioned entity with a backlog of stale records, 60 and 31 days
\* old in turn, every third without a title and every fourth without a
\* status.
BacklogRec(j) ==
  [GoodRec EXCEPT
     !.created = IF j % 2 = 1 THEN "2024-01-01" ELSE "2024-01-30",
     !.date = IF j % 2 = 1 THEN "2024-01-01" ELSE "2024-01-30",
     !.id = "B" \o ToString(j),
     !.title = IF j % 3 = 0 THEN NoKey ELSE "Backlog " \o ToString(j),
     !.status = IF j % 4 = 0 THEN NoKey ELSE "open"]

InitBacklog ==
  \E n \in 0..MaxBacklog :
    /\ config = MappingConfig(<<"tasks">>,
                  [e \in {"tasks"} |-> EntityDef(TRUE, FALSE, {}, {})])
    /\ store = [e \in Entities |->
                  IF e = "tasks"
                    THEN Dir(<<File("records.yaml",
                                    [j \in 1..n |-> BacklogRec(j)])>>)
                  ELSE NoDir]

Init ==
  /\ now = StartNow
  /\ out = NoScan("none", StartNow, 0)
  /\ lastScan = {}
  /\ walk = IdleWalk
  /\ stop = IdleStop
  /\ stage = IdleStage
  /\ \/ InitRecords
     \/ InitPartitions
     \/ InitConfigs
     \/ InitEntities
     \/ InitManyEntities
     \/ InitBacklog

(***************************************************************************)
(* Actions                                                                 *)
(***************************************************************************)
\* Time passes.
Tick ==
  /\ now < StartNow + MaxTicks
  /\ now' = now + 1
  /\ UNCHANGED <<config, store, out, lastScan, walk, stop, stage>>

\* The host runs the freshness-check hook (UserPromptSubmit).
FreshnessCheck ==
  /\ out' = FreshnessMain(config, store, now)
  /\ lastScan' = IF out'.scanned THEN {now} ELSE lastScan
  /\ config' = WrittenConfig(config, now)
  /\ UNCHANGED <<now, store, walk, stop, stage>>

\* The host runs the session-context hook (SessionStart).
SessionContext ==
  /\ out' = SessionMain(config, store, now)
  /\ config' = WrittenConfig(config, now)
  /\ UNCHANGED <<now, store, lastScan, walk, stop, stage>>

Next == Tick \/ FreshnessCheck \/ SessionContext

Spec == Init /\ [][Next]_vars

(***************************************************************************)
(* The other hooks, each under a specification of its own: the secondbrain *)
(* state stays as it is while they run.                                    *)
(***************************************************************************)
NoProject ==
  /\ now = StartNow
  /\ config = MappingConfig(<<>>, <<>>)
  /\ store = [e \in Entities |-> NoDir]
  /\ out = NoScan("none", StartNow, 0)
  /\ lastScan = {}

\* find_project_root is called in some directory of a tree in which any
\* directories hold .claude/data/config.yaml.
InitRoot ==
  /\ NoProject
  /\ stop = IdleStop
  /\ stage = IdleStage
  /\ \E cwd \in Dirs, configs \in SUBSET Dirs : walk = StartWalk(cwd, configs)

\* The loop of find_project_root examines its next path.
ExamineDir ==
  /\ ~walk.done
  /\ walk' = ExaminePath(walk)
  /\ UNCHANGED <<now, config, store, out, lastScan, stop, stage>>

NextRoot == ExamineDir

\* The loop runs on until it returns.
SpecRoot == InitRoot /\ [][NextRoot]_vars /\ WF_vars(ExamineDir)

\* The Stop hook is about to run on a repository with any changes, with
\* git queries that answer, fail or time out.
InitStop ==
  /\ NoProject
  /\ walk = IdleWalk
  /\ stage = IdleStage
  /\ \E repo \in [staged : 0..MaxChanges, unstaged : 0..MaxChanges,
                   untracked : 0..MaxChanges],
        q \in [1..4 -> QueryOutcomes] : stop = NoStop(repo, q)

\* The host runs the pre-stop-commit hook (Stop).
PreStopCommit ==
  /\ ~stop.ran
  /\ stop' = StopMain(stop.repo, stop.queries)
  /\ UNCHANGED <<now, config, store, out, lastScan, walk, stage>>

NextStop == PreStopCommit

SpecStop == InitStop /\ [][NextStop]_vars

\* The PostToolUse hook is about to run after a Write, Edit or Read of a
\* path, or after a Bash command of up to MaxArgs words after the command.
InitStage ==
  /\ NoProject
  /\ walk = IdleWalk
  /\ stop = IdleStop
  /\ \E project_dir \in {ProjectDir, <<>>}, fs \in {AllFiles, {}},
        git_ok \in BOOLEAN :
       \/ \E tool_name \in {"Write", "Edit", "Read"}, file_path \in FilePaths :
            stage = StageInput(tool_name, file_path, <<>>, project_dir, fs, git_ok)
       \/ \E cmd \in Commands, args \in SeqsUpTo(ArgPool, MaxArgs) :
            stage = StageInput("Bash", <<>>, <<cmd>> \o args, project_dir, fs,
                               git_ok)
       \/ stage = StageInput("Bash", <<>>, <<>>, project_dir, fs, git_ok)

\* The host runs the auto-stage hook (PostToolUse).
AutoStage ==
  /\ ~stage.done
  /\ stage' = AutoStageMain(stage)
  /\ UNCHANGED <<now, config, store, out, lastScan, walk, stop>>

NextStage == AutoStage

SpecStage == InitStage /\ [][NextStage]_vars

(***************************************************************************)
(* Vocabulary of the properties                                            *)
(***************************************************************************)
\* The last run was the freshness check and it got through its scan.
FreshnessScanned == out.hook = "freshness" /\ out.scanned /\ out.exit = 0

\* The last run was the session context and it printed its message.
SessionPrinted == out.hook = "session" /\ out.printed

\* The entities of the configuration that are defined by a mapping.
DefinedEntities ==
  {e \in Entities : /\ config.kind = "mapping"
                    /\ \E i \in 1..Len(EntityOrder(config)) : EntityOrder(config)[i] = e
                    /\ config.defs[e].map}

EnabledEntities == {e \in DefinedEntities : config.defs[e].enabled}

\* The data files of an entity in its layout: every monthly file but the
\* schema file, or records.yaml.
DataFiles(e) ==
  IF config.defs[e].partitioned
    THEN SelectSeq(store[e].files, LAMBDA f : f.name # "schema.yaml")
  ELSE FilesNamed(store[e].files, "records.yaml")

\* The records of an entity, file after file.
RECURSIVE Flatten(_)
Flatten(files) ==
  IF files = <<>> THEN <<>> ELSE Head(files).records \o Flatten(Tail(files))

RecordsOf(e) == Flatten(DataFiles(e))

\* The record is reported in the staleness sequence (records of the pools
\* carry distinct ids).
Appears(e, r, items) ==
  \E i \in 1..Len(items) : items[i].entity = e /\ items[i].id = r.id

\* The closed set of the specification: the default set plus the entity's
\* own closed_statuses, compared case-insensitively.
SpecClosed(def) == RecordsClosed \cup {Lower(c) : c \in def.closed_statuses}

\* C1: after a freshness scan, no record of an enabled entity whose status,
\* lower-cased, is in the entity's closed set appears in the staleness
\* sequence, in either layout.
ClosedNeverStale ==
  FreshnessScanned =>
    \A e \in EnabledEntities : \A i \in 1..Len(RecordsOf(e)) :
      LET r == RecordsOf(e)[i] IN
        (r.map /\ IsStr(r.status) /\ Lower(r.status) \in SpecClosed(config.defs[e]))
          => ~Appears(e, r, out.stale)

\* The open records dated by "date" alone: the ones both layouts read and
\* only the age decides.
PlainOpen(r) ==
  /\ r.map /\ r.status = "open" /\ IsStr(r.date) /\ strptime(r.date) # ValueError
  /\ r.created = NoKey /\ r.date_created = NoKey /\ r.date_updated = NoKey

\* C2: after a freshness scan of files that hold only plain open records, a
\* record is in the staleness sequence if and only if its days_old at the
\* time of the run is strictly greater than the entity's stale_after_days.
StaleIffOlderThanThreshold ==
  FreshnessScanned =>
    \A e \in EnabledEntities :
      (\A i \in 1..Len(RecordsOf(e)) : PlainOpen(RecordsOf(e)[i])) =>
        \A i \in 1..Len(RecordsOf(e)) :
          LET r == RecordsOf(e)[i] IN
            Appears(e, r, out.stale)
              <=> DaysOld(out.at, strptime(r.date)) > StaleDays(config.defs[e])

\* C3: two consecutive runs that reach the entity scan are at least one
\* hour apart.
ScansAtLeastHourApart ==
  [][\A a \in lastScan, b \in lastScan' :
       a # b => b - a >= RateLimitHours * TicksPerHour]_vars

\* C4: after either hook, an entity with enabled: false has no entry in the
\* staleness sequence, no line in the activity summary, and its storage was
\* not accessed.
DisabledContributesNothing ==
  out.hook \in {"freshness", "session"} =>
    \A e \in DefinedEntities \ EnabledEntities :
      /\ e \notin out.touched
      /\ \A i \in 1..Len(out.stale) : out.stale[i].entity # e
      /\ \A i \in 1..Len(out.activities) : out.activities[i].entity # e

\* A disabled entity whose storage holds a stale record, in a run that
\* reports the stale record of another entity.
DisabledWitness ==
  /\ FreshnessScanned
  /\ out.stale # <<>>
  /\ \E e \in DefinedEntities \ EnabledEntities :
       \E i \in 1..Len(RecordsOf(e)) : RecordsOf(e)[i] = GoodRec

\* The stale items of one entity, in the order they were collected.
ItemsOf(items, e) == SelectSeq(items, LAMBDA x : x.entity = e)

\* C5: after a freshness scan, what a monthly-partitioned entity
\* contributes equals what it contributes with its corrupt files removed
\* from the directory, in whatever order the files are enumerated.
CorruptPartitionIsolated ==
  FreshnessScanned =>
    \A e \in EnabledEntities :
      config.defs[e].partitioned =>
        ItemsOf(out.collected, e) =
          ScanFiles(e, SelectSeq(store[e].files, LAMBDA f : f.parse), 1,
                    out.at, StaleDays(config.defs[e]), <<>>)

\* A corrupt monthly file enumerated before a file with a stale record,
\* which is reported.
CorruptPartitionWitness ==
  /\ FreshnessScanned
  /\ \E e \in EnabledEntities :
       /\ config.defs[e].partitioned
       /\ Len(store[e].files) >= 2
       /\ ~store[e].files[1].parse /\ store[e].files[1].name # "schema.yaml"
       /\ store[e].files[2].records = <<GoodRec>>
       /\ Appears(e, GoodRec, out.stale)

\* The well-formed open records that are stale under every threshold of
\* the model.
WellFormedStale == {GoodRec, OtherRec, TwinRec}

\* C6: after a freshness scan, every well-formed stale record of an enabled
\* entity is reported, whatever malformed records precede or follow it.
MalformedSkippedAlone ==
  FreshnessScanned =>
    \A e \in EnabledEntities : \A i \in 1..Len(RecordsOf(e)) :
      RecordsOf(e)[i] \in WellFormedStale => Appears(e, RecordsOf(e)[i], out.stale)

\* C7: every run of either hook ends with exit status 0.
NoFatalError == out.exit = 0

\* The date of a record by the fallback list of the specification: the
\* first field present among created, date, date_created, date_updated.
RECURSIVE FirstPresent(_, _, _)
FirstPresent(r, fields, i) ==
  IF i > Len(fields) THEN NoKey
  ELSE IF r[fields[i]] # NoKey THEN r[fields[i]]
  ELSE FirstPresent(r, fields, i + 1)

SpecDate(r) == FirstPresent(r, DateFields, 1)

\* Every record of the entity is a mapping with string dates only and no
\* status, so that only the resolution of the date decides.
OnlyFieldRecords(e) ==
  \A i \in 1..Len(RecordsOf(e)) : RecordsOf(e)[i] \in FieldPool

\* C8: in both layouts the staleness view dates a record by the first
\* present field of the fallback list, and the activity view has a line,
\* dated by that list, for every entity that holds such records.
DateFallbackInBothViews ==
  /\ FreshnessScanned =>
       \A e \in EnabledEntities : OnlyFieldRecords(e) =>
         \A i \in 1..Len(RecordsOf(e)) :
           LET r == RecordsOf(e)[i] IN
             /\ Appears(e, r, out.stale)
                  <=> DaysOld(out.at, strptime(SpecDate(r))) > StaleDays(config.defs[e])
             /\ \A k \in 1..Len(out.stale) :
                  (out.stale[k].entity = e /\ out.stale[k].id = r.id)
                    => out.stale[k].date = SpecDate(r)
  /\ SessionPrinted =>
       \A e \in EnabledEntities :
         (OnlyFieldRecords(e) /\ RecordsOf(e) # <<>>) =>
           \E k \in 1..Len(out.activities) :
             /\ out.activities[k].entity = e
             /\ \E i \in 1..Len(RecordsOf(e)) :
                  out.activities[k].date = SpecDate(RecordsOf(e)[i])

\* A record that is a mapping with none of the four date fields.
Undated(r) == r.map /\ SpecDate(r) = NoKey

\* The storage with the undated records taken out of every file.
WithoutUndated(st) ==
  [e \in DOMAIN st |->
     [st[e] EXCEPT !.files =
        [i \in 1..Len(st[e].files) |->
           [st[e].files[i] EXCEPT !.records = SelectSeq(@, LAMBDA r : ~Undated(r))]]]]

\* C9: an undated record appears in neither output, raises no error, and
\* leaves the run's result what it is without the undated records.
UndatedRecordIgnored ==
  /\ out.hook \in {"freshness", "session"} =>
       \A e \in EnabledEntities : \A i \in 1..Len(RecordsOf(e)) :
         Undated(RecordsOf(e)[i]) =>
           /\ ~Appears(e, RecordsOf(e)[i], out.stale)
           /\ \A k \in 1..Len(out.activities) :
                ~(out.activities[k].entity = e
                  /\ out.activities[k].title = RecordsOf(e)[i].title)
  /\ out.hook = "freshness" =>
       /\ out.stale = FreshnessMain(config, WithoutUndated(store), out.at).stale
       /\ out.exit = FreshnessMain(config, WithoutUndated(store), out.at).exit
  /\ out.hook = "session" =>
       /\ out.activities = SessionMain(config, WithoutUndated(store), out.at).activities
       /\ out.exit = SessionMain(config, WithoutUndated(store), out.at).exit

\* The position of an entity in the configuration.
EntityIndex(e) ==
  CHOOSE i \in 1..Len(EntityOrder(config)) : EntityOrder(config)[i] = e

\* C10: the staleness sequence of a run is what was collected (entity after
\* entity in the order of the configuration), in non-increasing order of
\* days_old, and the entries of equal days_old are in the order in which
\* they were collected.
SortedDescendingStable ==
  FreshnessScanned =>
    /\ Len(out.stale) = Len(out.collected)
    /\ \A i \in 1..(Len(out.stale) - 1) :
         out.stale[i].days_old >= out.stale[i + 1].days_old
    /\ \A i \in 1..Len(out.collected) :
         LET d == out.collected[i].days_old IN
           SelectSeq(out.stale, LAMBDA x : x.days_old = d)
             = SelectSeq(out.collected, LAMBDA x : x.days_old = d)
    /\ \A i \in 1..(Len(out.collected) - 1) :
         EntityIndex(out.collected[i].entity)
           <= EntityIndex(out.collected[i + 1].entity)
    /\ \A e \in EnabledEntities :
         ~config.defs[e].partitioned /\ (\A i \in 1..Len(RecordsOf(e)) :
                                           RecordsOf(e)[i] \in WellFormedStale)
           => [i \in 1..Len(RecordsOf(e)) |-> RecordsOf(e)[i].id]
                = [i \in 1..Len(ItemsOf(out.collected, e)) |->
                     ItemsOf(out.collected, e)[i].id]

\* A run in which the sort moved an older entry forward and two entities
\* have entries of equal age.
SortedWitness ==
  /\ FreshnessScanned
  /\ out.stale # out.collected
  /\ \E i, j \in 1..Len(out.stale) :
       /\ i < j
       /\ out.stale[i].days_old = out.stale[j].days_old
       /\ out.stale[i].entity # out.stale[j].entity

\* The dated records of an entity, by position among its records, and the
\* rank of a resolved date among the dates of the pools.
DatedIndexes(e) ==
  {i \in 1..Len(RecordsOf(e)) :
     RecordsOf(e)[i].map /\ Truthy(SpecDate(RecordsOf(e)[i]))}

DateRank(v) == StrRank(Str(v))

\* C11: after a session-context run over at most five entities, every
\* enabled entity with a dated record has exactly one activity line, dated
\* with the greatest resolved date among all its dated records in all its
\* data files, and an entity without a dated record has no line.
MostRecentRecordPerEntity ==
  SessionPrinted /\ Len(EntityOrder(config)) <= ActivityLimit =>
    \A e \in EnabledEntities :
      LET lines == ItemsOf(out.activities, e) IN
      IF DatedIndexes(e) = {} THEN lines = <<>>
      ELSE /\ Len(lines) = 1
           /\ \E i \in DatedIndexes(e) :
                /\ lines[1].date = SpecDate(RecordsOf(e)[i])
                /\ \A j \in DatedIndexes(e) :
                     DateRank(SpecDate(RecordsOf(e)[j]))
                       <= DateRank(SpecDate(RecordsOf(e)[i]))

\* C12: the activity summary of a session-context run has at most five
\* lines, most recent first, and an entity left out has no record more
\* recent than those of the entities kept.
ActivityByRecency ==
  SessionPrinted =>
    /\ Len(out.activities) <= ActivityLimit
    /\ \A i \in 1..(Len(out.activities) - 1) :
         DateRank(out.activities[i].date) >= DateRank(out.activities[i + 1].date)
    /\ \A e \in EnabledEntities :
         ItemsOf(out.activities, e) = <<>> =>
           \A i \in DatedIndexes(e) : \A k \in 1..Len(out.activities) :
             DateRank(SpecDate(RecordsOf(e)[i])) <= DateRank(out.activities[k].date)

\* C13: after a freshness scan with a non-empty staleness sequence of length
\* n, the header of the digest states n, its item lines are the first
\* min(n, 5) entries of the sorted sequence in order, and a "more" line is
\* there exactly when n > 5 and then states n - 5.
DigestOfSortedSequence ==
  FreshnessScanned /\ out.stale # <<>> =>
    LET n == Len(out.stale)
        k == IF n < 5 THEN n ELSE 5
        m == out.response.message
    IN /\ out.printed
       /\ m.count = n
       /\ Len(m.lines) = k
       /\ \A i \in 1..k :
            /\ m.lines[i].entity = out.stale[i].entity
            /\ m.lines[i].id = out.stale[i].id
            /\ m.lines[i].days = out.stale[i].days_old
       /\ m.more = IF n > 5 THEN {n - 5} ELSE {}

\* A scan that found more stale records than the digest lists, which the
\* sort reordered.
DigestWitness ==
  /\ FreshnessScanned
  /\ Len(out.stale) > 5
  /\ out.stale # out.collected
  /\ out.response.message.more = {Len(out.stale) - 5}

\* C14: after a freshness scan with a non-empty staleness sequence, the
\* printed response carries the total count of the sequence and its first
\* ten entries as a detail list.
ResponseCarriesPayload ==
  FreshnessScanned /\ out.stale # <<>> =>
    /\ {"total_stale", "details"} \subseteq DOMAIN out.response
    /\ out.response.total_stale = Len(out.stale)
    /\ out.response.details = Take(out.stale, 10)

\* The identity of a record as the claim resolves it.
SpecIdentity(r) ==
  LET v == FirstPresent(r, <<"id", "number", "title", "topic">>, 1)
  IN IF v = NoKey THEN "Unknown" ELSE v

\* C15: after a freshness scan, in both layouts, the entries of an entity
\* whose records are stale, open and differ only in their identity fields
\* carry, record after record, the first present of id, number, title and
\* topic, and "Unknown" when none is present.
IdentityFirstPresent ==
  FreshnessScanned =>
    \A e \in EnabledEntities :
      (\A i \in 1..Len(RecordsOf(e)) : RecordsOf(e)[i] \in IdentPool) =>
        [i \in 1..Len(ItemsOf(out.collected, e)) |->
           ItemsOf(out.collected, e)[i].id]
          = [i \in 1..Len(RecordsOf(e)) |-> SpecIdentity(RecordsOf(e)[i])]

\* C17: no step of either hook changes the configuration file, its
\* meta.last_freshness_check included, or any record container.
HooksReadOnly == [][config' = config /\ store' = store]_vars

\* A scan that printed its digest, run after the clock moved, over a
\* configuration whose timestamp is still the one of two hours before the
\* start.
ReadOnlyWitness ==
  /\ FreshnessScanned
  /\ out.printed
  /\ out.at > StartNow
  /\ config.meta = "mapping"
  /\ config.last_check = "2024-02-29T22:00:00"

\* C19: a freshness-check run that reaches the rate limit skips the scan,
\* and prints nothing, exactly when meta.last_freshness_check parses to a
\* time t with 0 <= now - t < 1 hour; it scans when the timestamp is absent,
\* does not parse, is an hour old or older, or lies in the future.
RateLimitSkipsExactly ==
  /\ out.hook = "freshness"
  /\ config.kind = "mapping"
  /\ config.meta \in {"missing", "mapping"}
  => LET parses == /\ Truthy(config.last_check)
                   /\ fromisoformat(config.last_check) # ValueError
         recent == /\ 0 <= out.at - fromisoformat(config.last_check)
                   /\ out.at - fromisoformat(config.last_check) < TicksPerHour
     IN /\ out.scanned <=> ~(parses /\ recent)
        /\ ~out.scanned => ~out.printed /\ out.exit = 0

\* The depth of a directory, and whether a is n or an ancestor of n.
RECURSIVE Depth(_)
Depth(n) == IF n = 0 THEN 0 ELSE 1 + Depth(Parent(n))

RECURSIVE IsSelfOrAncestor(_, _)
IsSelfOrAncestor(a, n) == a = n \/ (n # 0 /\ IsSelfOrAncestor(a, Parent(n)))

\* The deepest directory among the start and its ancestors that holds the
\* configuration file (the empty set when none does).
NearestRoot ==
  LET holders == {d \in walk.configs : IsSelfOrAncestor(d, walk.cwd)}
  IN {d \in holders : \A other \in holders : Depth(other) <= Depth(d)}

\* C16: from any directory of the tree, find_project_root never examines
\* more than depth + 1 directories, returns in the end, and then has
\* returned the nearest directory among the start and its ancestors that
\* holds .claude/data/config.yaml, or nothing when none does.
FindsNearestRoot ==
  /\ [](/\ walk.examined <= Depth(walk.cwd) + 1
        /\ walk.done => walk.root = NearestRoot)
  /\ <>walk.done

\* A call that returned the parent of its start, which is not the root,
\* while the root and a directory off the path hold a configuration too.
NearestRootWitness ==
  /\ walk.done
  /\ walk.cwd # 0
  /\ Parent(walk.cwd) # 0
  /\ walk.root = {Parent(walk.cwd)}
  /\ 0 \in walk.configs
  /\ \E d \in walk.configs : ~IsSelfOrAncestor(d, walk.cwd)

\* C18: a run of the Stop hook blocks (decision "block", exit code 2) when
\* the repository has a staged, unstaged or untracked change, whatever the
\* git queries do, and exits 0 without a decision when it has none.
BlocksIffChanges ==
  stop.ran =>
    IF stop.repo.staged + stop.repo.unstaged + stop.repo.untracked > 0
      THEN stop.exit = 2 /\ stop.decision = "block"
    ELSE stop.exit = 0 /\ stop.decision = ""

\* C20: with CLAUDE_PROJECT_DIR set, every path a run of auto-stage hands
\* to git add names a file in the tree of the project directory.
StagesOnlyInsideProject ==
  stage.done /\ stage.project_dir # <<>> =>
    \A i \in 1..Len(stage.added) :
      LET file == FileOf(stage.added[i], stage.cwd)
          dir == FileOf(stage.project_dir, stage.cwd)
      IN Len(file) >= Len(dir) /\ SubSeq(file, 1, Len(dir)) = dir

====
